---- MODULE Spec2Model ----
(***************************************************************************)
(* Phase Space Visualizer (src/src/main.rs): point masses under constant   *)
(* gravity bouncing inside a circular arena, drawn into an RGBA frame.     *)
(*                                                                         *)
(* Numbers.  An f64 is modelled as a fixed-point number: the integer k     *)
(* stands for k / Scale.  Every arithmetic operation rounds its exact      *)
(* result to the nearest representable value, and the rounding is          *)
(* symmetric in the sign (as IEEE-754 rounding is).  TLC's integers are    *)
(* 32 bits wide, so the screen is scaled down: SCREEN_WIDTH and            *)
(* SCREEN_HEIGHT are bounds of the model (400 in the source), and every    *)
(* constant the source derives from them is derived here the same way.     *)
(***************************************************************************)
EXTENDS Integers, Sequences, FiniteSets

\* ------------------------------------------------------------ numbers

\* The resolution of the fixed-point model of f64: 1 stands for 0.001.
Scale == 1000

\* n / d (d > 0) rounded to the nearest integer, halves away from zero.
RoundDiv(n, d) ==
    IF n >= 0 THEN (2 * n + d) \div (2 * d)
    ELSE -((2 * (-n) + d) \div (2 * d))

\* f64 multiplication.
FMul(a, b) == RoundDiv(a * b, Scale)

\* f64 division (b # 0).
FDiv(a, b) == IF b > 0 THEN RoundDiv(a * Scale, b) ELSE RoundDiv(-(a * Scale), -b)

RECURSIVE SqrtSearch(_, _, _)
\* The largest r in lo..hi with r * r <= n (lo * lo <= n).
SqrtSearch(n, lo, hi) ==
    IF lo >= hi THEN lo
    ELSE LET mid == (lo + hi + 1) \div 2
         IN  IF mid * mid <= n THEN SqrtSearch(n, mid, hi)
             ELSE SqrtSearch(n, lo, mid - 1)

\* The largest root whose square is a TLC integer.
MaxRoot == 46340

\* f64::sqrt (a >= 0): the root of a / Scale, rounded to the nearest value.
FSqrt(a) ==
    LET n == a * Scale
        r == SqrtSearch(n, 0, MaxRoot)
    IN  IF n - r * r > r THEN r + 1 ELSE r

\* f64::powi(2).
Powi2(a) == FMul(a, a)

\* f64::round (halves away from zero) followed by `as i32`.
RoundAsI32(a) == RoundDiv(a, Scale)

\* f64::round followed by `as u8`, which saturates.
RoundAsU8(a) ==
    LET r == RoundDiv(a, Scale)
    IN  IF r < 0 THEN 0 ELSE IF r > 255 THEN 255 ELSE r

\* `n as f64` of an integer.
AsF64(n) == n * Scale

\* ---------------------------------------------------------- constants

SCREEN_WIDTH == 12
SCREEN_HEIGHT == 12

CIRCLE_RADIUS == (SCREEN_HEIGHT \div 2) - 1
CIRCLE_RADIUS_SQUARED == CIRCLE_RADIUS * CIRCLE_RADIUS
CIRCLE_CENTER_X == SCREEN_WIDTH \div 2
CIRCLE_CENTER_Y == SCREEN_HEIGHT \div 2

CLEAR_COLOR == <<0, 0, 0, 255>>
CIRCLE_COLOR == <<100, 100, 100, 255>>

\* 9.8
G == (98 * Scale) \div 10
\* 0.1
TIME_STEP == Scale \div 10

\* ------------------------------------------------------------ physics

\* reflect with the factor 2 left out: the normal component is removed, not
\* reversed.
reflectWithoutFactor(v_x, v_y, n_x, n_y) ==
    LET dot_product == FMul(v_x, n_x) + FMul(v_y, n_y)
    IN  <<v_x - FMul(dot_product, n_x), v_y - FMul(dot_product, n_y)>>

\* reflect(v, n) = v - 2 (v . n) n
reflect(v_x, v_y, n_x, n_y) ==
    LET dot_product == FMul(v_x, n_x) + FMul(v_y, n_y)
        r_x == v_x - FMul(FMul(AsF64(2), dot_product), n_x)
        r_y == v_y - FMul(FMul(AsF64(2), dot_product), n_y)
    IN  <<r_x, r_y>>

\* The integration with the position advanced by the velocity of before the
\* step (explicit Euler).
IntegratedExplicit(p_x, p_y, v_x, v_y) ==
    <<p_x + FMul(v_x, TIME_STEP), p_y + FMul(v_y, TIME_STEP),
      v_x + FMul(0, TIME_STEP), v_y + FMul(G, TIME_STEP)>>

\* The semi-implicit Euler half of point_update: <<position, velocity>> before
\* the boundary check.
Integrated(p_x, p_y, v_x, v_y) ==
    LET acceleration_x == 0
        acceleration_y == G
        velocity_x == v_x + FMul(acceleration_x, TIME_STEP)
        velocity_y == v_y + FMul(acceleration_y, TIME_STEP)
        position_x == p_x + FMul(velocity_x, TIME_STEP)
        position_y == p_y + FMul(velocity_y, TIME_STEP)
    IN  <<position_x, position_y, velocity_x, velocity_y>>

\* The squared distance of a position from the arena center.
DistanceSquared(position_x, position_y) ==
    Powi2(position_x - AsF64(CIRCLE_CENTER_X))
        + Powi2(position_y - AsF64(CIRCLE_CENTER_Y))

\* The boundary condition with > for >=.
BoundaryHitStrict(distance_squared) == distance_squared > AsF64(CIRCLE_RADIUS_SQUARED)

\* The condition of point_update's boundary branch.
BoundaryHit(distance_squared) == distance_squared >= AsF64(CIRCLE_RADIUS_SQUARED)

\* The boundary branch without the clamp: the position stays where the
\* integration put it.
CorrectedNoClamp(position_x, position_y, velocity_x, velocity_y, distance_squared) ==
    LET distance == FSqrt(distance_squared)
        r == reflect(velocity_x, velocity_y,
                     FDiv(AsF64(CIRCLE_CENTER_X) - position_x, distance),
                     FDiv(AsF64(CIRCLE_CENTER_Y) - position_y, distance))
    IN  <<position_x, position_y, r[1], r[2]>>

\* The boundary branch with the normal's components of opposite conventions:
\* x from the inward normal, y from the outward one.
CorrectedMixedNormal(position_x, position_y, velocity_x, velocity_y, distance_squared) ==
    LET distance == FSqrt(distance_squared)
        r == reflect(velocity_x, velocity_y,
                     FDiv(AsF64(CIRCLE_CENTER_X) - position_x, distance),
                     FDiv(position_y - AsF64(CIRCLE_CENTER_Y), distance))
        new_x == AsF64(CIRCLE_CENTER_X)
                   + FMul(AsF64(CIRCLE_RADIUS),
                          FDiv(position_x - AsF64(CIRCLE_CENTER_X), distance))
        new_y == AsF64(CIRCLE_CENTER_Y)
                   + FMul(AsF64(CIRCLE_RADIUS),
                          FDiv(position_y - AsF64(CIRCLE_CENTER_Y), distance))
    IN  <<new_x, new_y, r[1], r[2]>>

\* The boundary branch of point_update: the velocity reflected, the position
\* put on the arena circle.
Corrected(position_x, position_y, velocity_x, velocity_y, distance_squared) ==
    LET distance == FSqrt(distance_squared)
        r == reflect(velocity_x, velocity_y,
                     FDiv(AsF64(CIRCLE_CENTER_X) - position_x, distance),
                     FDiv(AsF64(CIRCLE_CENTER_Y) - position_y, distance))
        new_x == AsF64(CIRCLE_CENTER_X)
                   + FMul(AsF64(CIRCLE_RADIUS),
                          FDiv(position_x - AsF64(CIRCLE_CENTER_X), distance))
        new_y == AsF64(CIRCLE_CENTER_Y)
                   + FMul(AsF64(CIRCLE_RADIUS),
                          FDiv(position_y - AsF64(CIRCLE_CENTER_Y), distance))
    IN  <<new_x, new_y, r[1], r[2]>>

\* One step of one particle: <<p_x, p_y, v_x, v_y>> after the step.
point_update(p_x, p_y, v_x, v_y) ==
    LET s == Integrated(p_x, p_y, v_x, v_y)
        distance_squared == DistanceSquared(s[1], s[2])
    IN  IF BoundaryHit(distance_squared)
        THEN Corrected(s[1], s[2], s[3], s[4], distance_squared)
        ELSE s

\* map_to_range: the affine map of from_low..from_high onto to_low..to_high.
map_to_range(x, from_low, from_high, to_low, to_high) ==
    FMul(FDiv(x - from_low, from_high - from_low), to_high - to_low) + to_low

\* ------------------------------------------------------ command line

\* The longest first argument the model passes, in characters.
MaxArgLen == 1

\* The characters of the arguments the model passes.
Chars == {"0", "1", "2", "3", "4", "5", "9", "+", "-", "x"}

\* No first argument: args.get(1) is None.
NoArg == <<"none">>

\* The first arguments the model passes: strings of at most MaxArgLen characters.
ArgStrings == UNION {[1 .. n -> Chars] : n \in 0 .. MaxArgLen}

DEFAULT_SCENE == <<"1">>

\* char::to_digit(10): the digit's value, -1 for any other character.
DigitValue(c) ==
    CASE c = "0" -> 0 [] c = "1" -> 1 [] c = "2" -> 2 [] c = "3" -> 3
      [] c = "4" -> 4 [] c = "5" -> 5 [] c = "6" -> 6 [] c = "7" -> 7
      [] c = "8" -> 8 [] c = "9" -> 9 [] OTHER -> -1

RECURSIVE ParseDigits(_, _, _)
\* The digits s[i..] appended to acc; -1 when one of them is no digit.
ParseDigits(s, i, acc) ==
    IF i > Len(s) THEN acc
    ELSE IF DigitValue(s[i]) < 0 THEN -1
    ELSE ParseDigits(s, i + 1, acc * 10 + DigitValue(s[i]))

\* str::parse::<u32>: the number, or -1 for Err.  An empty string, a lone sign,
\* a '-' and any other non-digit are errors; one leading '+' is accepted.
\* (No string of the model's length overflows a u32.)
ParseU32(s) ==
    IF Len(s) = 0 THEN -1
    ELSE IF Len(s) = 1 /\ s[1] \in {"+", "-"} THEN -1
    ELSE IF s[1] = "+" THEN ParseDigits(s, 2, 0)
    ELSE ParseDigits(s, 1, 0)

\* main's `scene`: the parsed first argument, 1 when it is absent or no u32.
SceneNumber(a) ==
    LET text == IF a = NoArg THEN DEFAULT_SCENE ELSE a
        parsed == ParseU32(text)
    IN  IF parsed < 0 THEN 1 ELSE parsed

\* The match with the arm of 3 running scene_2.
SceneSelectedWrongArm(n) ==
    CASE n = 1 -> 1 [] n = 2 -> 2 [] n = 3 -> 2 [] n = 4 -> 4 [] n = 5 -> 5
      [] OTHER -> 1

\* main's match: the scene function that runs.
SceneSelected(n) ==
    CASE n = 1 -> 1 [] n = 2 -> 2 [] n = 3 -> 3 [] n = 4 -> 4 [] n = 5 -> 5
      [] OTHER -> 1

\* ------------------------------------------------------------- setup

\* The cells of the screen in the order of `for row .. for col ..`: <<col, row>>.
ScreenCells ==
    [k \in 1 .. SCREEN_WIDTH * SCREEN_HEIGHT |->
        <<(k - 1) % SCREEN_WIDTH, (k - 1) \div SCREEN_WIDTH>>]

\* The circle test with >= for >: the cells on the circle are passed over.
InCircleStrict(cell) ==
    LET x == cell[1] - CIRCLE_CENTER_X
        y == cell[2] - CIRCLE_CENTER_Y
        distance_squared == x * x + y * y
    IN  ~(distance_squared >= CIRCLE_RADIUS_SQUARED)

\* The cells the circle loops do not `continue` past.
InCircle(cell) ==
    LET x == cell[1] - CIRCLE_CENTER_X
        y == cell[2] - CIRCLE_CENTER_Y
        distance_squared == x * x + y * y
    IN  ~(distance_squared > CIRCLE_RADIUS_SQUARED)

\* The cells scene_4 and scene_5 create a particle for, in creation order.
GridCells == SelectSeq(ScreenCells, InCircle)

\* The particles of a scene at setup:
\* [n, px, py, vx, vy, ix, iy] (ix, iy: scene 5's initial positions).
SceneSetup(s) ==
    IF s \in {1, 3} THEN
        [n |-> 1,
         px |-> <<AsF64(CIRCLE_CENTER_X)>>, py |-> <<AsF64(CIRCLE_CENTER_Y)>>,
         vx |-> <<2 * Scale>>, vy |-> <<0>>, ix |-> <<>>, iy |-> <<>>]
    ELSE IF s = 2 THEN
        [n |-> 2,
         px |-> <<AsF64(CIRCLE_CENTER_X), AsF64(CIRCLE_CENTER_X)>>,
         py |-> <<AsF64(CIRCLE_CENTER_Y), AsF64(CIRCLE_CENTER_Y)>>,
         vx |-> <<Scale \div 2, (4 * Scale) \div 10>>, vy |-> <<0, 0>>,
         ix |-> <<>>, iy |-> <<>>]
    ELSE
        [n |-> Len(GridCells),
         px |-> [i \in 1 .. Len(GridCells) |-> AsF64(GridCells[i][1])],
         py |-> [i \in 1 .. Len(GridCells) |-> AsF64(GridCells[i][2])],
         vx |-> [i \in 1 .. Len(GridCells) |-> 0],
         vy |-> [i \in 1 .. Len(GridCells) |-> 0],
         ix |-> IF s = 5 THEN [i \in 1 .. Len(GridCells) |-> GridCells[i][1]]
                ELSE <<>>,
         iy |-> IF s = 5 THEN [i \in 1 .. Len(GridCells) |-> GridCells[i][2]]
                ELSE <<>>]

\* ------------------------------------------------------------ drawing

\* The frame buffer's length in bytes.
FrameLen == SCREEN_WIDTH * SCREEN_HEIGHT * 4

\* The byte index of pixel (x, y).
PixelIndex(x, y) == (y * SCREEN_WIDTH + x) * 4

\* The drawing condition with <= for < against the height.
OnScreenInclusive(point_x, point_y) ==
    /\ point_x >= 0
    /\ point_x < SCREEN_WIDTH
    /\ point_y >= 0
    /\ point_y <= SCREEN_HEIGHT

\* The condition under which a point is drawn.
OnScreen(point_x, point_y) ==
    /\ point_x >= 0
    /\ point_x < SCREEN_WIDTH
    /\ point_y >= 0
    /\ point_y < SCREEN_HEIGHT

\* A write is <<index, color>>: frame[index..index + 4] := color.

\* `for pixel in frame.chunks_exact_mut(4)`: every pixel of the buffer.
ClearWrites(color) ==
    [k \in 1 .. SCREEN_WIDTH * SCREEN_HEIGHT |-> <<(k - 1) * 4, color>>]

\* The arena, filled.
CircleWrites ==
    [k \in 1 .. Len(GridCells) |->
        <<PixelIndex(GridCells[k][1], GridCells[k][2]), CIRCLE_COLOR>>]

\* Scene 2 colors its two points; the other scenes draw in red.
PointColor(s, i) ==
    IF s = 2 /\ i = 2 THEN <<0, 255, 0, 255>> ELSE <<255, 0, 0, 255>>

\* The points of scenes 1 to 4, each drawn at its rounded position when that
\* is on the screen.
PointWrites(s, px, py) ==
    LET at == [i \in 1 .. Len(px) |->
                  <<RoundAsI32(px[i]), RoundAsI32(py[i]), PointColor(s, i)>>]
        drawn == SelectSeq(at, LAMBDA p : OnScreen(p[1], p[2]))
    IN  [k \in 1 .. Len(drawn) |-> <<PixelIndex(drawn[k][1], drawn[k][2]), drawn[k][3]>>]

\* map_to_range of a coordinate against the arena's span, as a color channel.
ColorChannel(position, center) ==
    RoundAsU8(map_to_range(position,
                           AsF64(center) - AsF64(CIRCLE_RADIUS),
                           AsF64(center) + AsF64(CIRCLE_RADIUS),
                           AsF64(0), AsF64(255)))

\* The samples written at the particles' current positions.
SampleWritesAtCurrent(px, py, ix, iy) ==
    [i \in 1 .. Len(px) |->
        <<(RoundAsI32(py[i]) * SCREEN_WIDTH + RoundAsI32(px[i])) * 4,
          <<0, ColorChannel(px[i], CIRCLE_CENTER_X),
               ColorChannel(py[i], CIRCLE_CENTER_Y), 255>>>>]

\* Scene 5: one sample per particle, at the particle's initial position.
SampleWrites(px, py, ix, iy) ==
    [i \in 1 .. Len(px) |->
        <<(iy[i] * SCREEN_WIDTH + ix[i]) * 4,
          <<0, ColorChannel(px[i], CIRCLE_CENTER_X),
               ColorChannel(py[i], CIRCLE_CENTER_Y), 255>>>>]

\* Everything the RedrawRequested arm of scene s writes, in order.
RenderWrites(s, px, py, ix, iy) ==
    IF s = 5 THEN ClearWrites(CLEAR_COLOR) \o SampleWrites(px, py, ix, iy)
    ELSE IF s = 3 THEN
        ClearWrites(<<0, ColorChannel(px[1], CIRCLE_CENTER_X),
                         ColorChannel(py[1], CIRCLE_CENTER_Y), 255>>)
            \o CircleWrites \o PointWrites(s, px, py)
    ELSE ClearWrites(CLEAR_COLOR) \o CircleWrites \o PointWrites(s, px, py)

\* A slice frame[index..index + 4] outside the buffer panics.
InBounds(index) == index >= 0 /\ index + 4 <= FrameLen

\* The writes made: all of them, or those before the first one out of bounds.
WritesMade(writes) ==
    LET bad == {i \in 1 .. Len(writes) : ~InBounds(writes[i][1])}
    IN  IF bad = {} THEN Len(writes)
        ELSE (CHOOSE i \in bad : \A j \in bad : i <= j) - 1

\* The frame (pixel number -> color) after writes[1..made]: each pixel holds
\* the last write to it.
FrameAfter(f, writes, made) ==
    [p \in DOMAIN f |->
        LET hits == {i \in 1 .. made : writes[i][1] = 4 * p}
        IN  IF hits = {} THEN f[p]
            ELSE writes[CHOOSE i \in hits : \A j \in hits : j <= i][2]]

\* The frame after the writes made.
ApplyWrites(f, writes) ==
    CHOOSE g \in {FrameAfter(f, writes, made) : made \in {WritesMade(writes)}} : TRUE

\* Whether a write of writes is out of bounds: the slice panics.
Panics(writes) == WritesMade(writes) < Len(writes)

\* -------------------------------------------------------------- state

\* The most ticks a run of the model takes.
MaxTicks == 12
\* The most calls a chain of single calls makes.
MaxCalls == 2

VARIABLES
    pc,                        \* where the process is: "main", "running",
                               \* "exited", "panicked"; "call" for single calls
    arg,                       \* the first command-line argument
    scene,                     \* the scene function running (0: none yet)
    num_points,
    point_position_x, point_position_y,
    point_velocity_x, point_velocity_y,
    point_initial_position_x, point_initial_position_y,
    control_flow,              \* "Poll" or "Exit"
    stage,                     \* of the event loop's iteration: "events", "redraw"
    redraw_requested,          \* a redraw of the window is pending
    frame,                     \* the frame buffer: pixel number -> RGBA
    written,                   \* the byte indices the last drawing wrote at
    ticks,                     \* MainEventsCleared arms run
    frames,                    \* RedrawRequested arms run
    point_steps,               \* per particle, the steps it has taken
    steps_drawn,               \* point_steps as the last redraw found it
    call_in, call_out, call_n  \* a single call: arguments, result, calls made

particle_vars ==
    <<num_points, point_position_x, point_position_y, point_velocity_x,
      point_velocity_y, point_steps>>
initial_vars == <<point_initial_position_x, point_initial_position_y>>
loop_vars == <<control_flow, stage, redraw_requested>>
draw_vars == <<frame, written, frames, steps_drawn>>
call_vars == <<call_in, call_out, call_n>>

vars ==
    <<pc, arg, scene, particle_vars, initial_vars, loop_vars, draw_vars, ticks,
      call_vars>>

\* Positions on the pixel grid, one pixel beyond the screen on each side.
CallPositions == {AsF64(k) : k \in -1 .. SCREEN_WIDTH}
\* Velocities: -10, -0.98, 0, 2 and 10.
CallVelocities == {-10 * Scale, -G \div 10, 0, 2 * Scale, 10 * Scale}

EmptyFrame == [p \in 0 .. SCREEN_WIDTH * SCREEN_HEIGHT - 1 |-> <<0, 0, 0, 0>>]

\* The process before main runs, or a single call about to be made on
\* arbitrary arguments.
Init ==
    /\ pc \in {"main", "call"}
    /\ arg = NoArg
    /\ scene = 0
    /\ num_points = 0
    /\ point_position_x = <<>> /\ point_position_y = <<>>
    /\ point_velocity_x = <<>> /\ point_velocity_y = <<>>
    /\ point_initial_position_x = <<>> /\ point_initial_position_y = <<>>
    /\ control_flow = "Poll"
    /\ stage = "events"
    /\ redraw_requested = FALSE
    /\ frame = EmptyFrame
    /\ written = {}
    /\ ticks = 0 /\ frames = 0
    /\ point_steps = <<>> /\ steps_drawn = <<>>
    /\ call_n = 0
    /\ call_in \in IF pc = "call"
                   THEN CallPositions \X CallPositions \X CallVelocities \X CallVelocities
                   ELSE {<<0, 0, 0, 0>>}
    /\ call_out = call_in

\* ------------------------------------------------------------ program

\* main with first argument a (NoArg: none), up to event_loop.run of the scene.
Main ==
    /\ pc = "main"
    /\ \E a \in ArgStrings \cup {NoArg} :
        LET s == SceneSelected(SceneNumber(a))
            setup == SceneSetup(s)
        IN  /\ arg' = a
            /\ scene' = s
            /\ num_points' = setup.n
            /\ point_position_x' = setup.px
            /\ point_position_y' = setup.py
            /\ point_velocity_x' = setup.vx
            /\ point_velocity_y' = setup.vy
            /\ point_initial_position_x' = setup.ix
            /\ point_initial_position_y' = setup.iy
            /\ point_steps' = [i \in 1 .. setup.n |-> 0]
    /\ pc' = "running"
    /\ UNCHANGED <<loop_vars, draw_vars, ticks, call_vars>>

\* The window's close button: the handler sets the control flow to Exit.
CloseRequested ==
    /\ pc = "running" /\ stage = "events" /\ control_flow = "Poll"
    /\ control_flow' = "Exit"
    /\ UNCHANGED <<pc, arg, scene, particle_vars, initial_vars, stage,
                   redraw_requested, draw_vars, ticks, call_vars>>

\* The window system invalidates the window: a redraw is pending (the handler
\* is not called for it; pending redraws of one iteration are one event).
WindowInvalidated ==
    /\ pc = "running" /\ stage = "events" /\ ~redraw_requested
    /\ redraw_requested' = TRUE
    /\ UNCHANGED <<pc, arg, scene, particle_vars, initial_vars, control_flow,
                   stage, draw_vars, ticks, call_vars>>

\* The particles after the MainEventsCleared arm: point_update on each.
Ticked(px, py, vx, vy) ==
    [i \in 1 .. Len(px) |-> point_update(px[i], py[i], vx[i], vy[i])]

\* The arm without window.request_redraw().
TickForgetsRedraw == FALSE

\* Whether the MainEventsCleared arm asks for a redraw.
TickRequestsRedraw == TRUE

\* Event::MainEventsCleared: every particle takes one step, and a redraw is
\* requested.
MainEventsCleared ==
    /\ pc = "running" /\ stage = "events"
    /\ ticks < MaxTicks
    /\ \E new \in {Ticked(point_position_x, point_position_y,
                          point_velocity_x, point_velocity_y)} :
           /\ point_position_x' = [i \in 1 .. Len(new) |-> new[i][1]]
           /\ point_position_y' = [i \in 1 .. Len(new) |-> new[i][2]]
           /\ point_velocity_x' = [i \in 1 .. Len(new) |-> new[i][3]]
           /\ point_velocity_y' = [i \in 1 .. Len(new) |-> new[i][4]]
           /\ point_steps' = [i \in 1 .. Len(point_steps) |->
                                 IF i <= Len(new) THEN point_steps[i] + 1
                                 ELSE point_steps[i]]
    /\ redraw_requested' = (redraw_requested \/ TickRequestsRedraw)
    /\ stage' = "redraw"
    /\ ticks' = ticks + 1
    /\ UNCHANGED <<pc, arg, scene, num_points, initial_vars, control_flow,
                   draw_vars, call_vars>>

\* The redraw stage of an iteration.  Event::RedrawRequested is delivered when
\* a redraw is pending: the frame is drawn from the particles.  The iteration
\* ends, and with it the loop when the control flow is Exit.
RedrawRequested ==
    /\ pc = "running" /\ stage = "redraw"
    /\ IF redraw_requested
       THEN \E writes \in {RenderWrites(scene, point_position_x, point_position_y,
                                         point_initial_position_x,
                                         point_initial_position_y)} :
                /\ frame' = ApplyWrites(frame, writes)
                /\ written' = {writes[i][1] : i \in 1 .. Len(writes)}
                /\ pc' = IF Panics(writes) THEN "panicked"
                         ELSE IF control_flow = "Exit" THEN "exited"
                         ELSE "running"
                /\ frames' = frames + 1
                /\ steps_drawn' = point_steps
       ELSE /\ pc' = IF control_flow = "Exit" THEN "exited" ELSE "running"
            /\ UNCHANGED draw_vars
    /\ redraw_requested' = FALSE
    /\ stage' = "events"
    /\ UNCHANGED <<arg, scene, particle_vars, initial_vars, control_flow, ticks,
                   call_vars>>

\* With the control flow set to Exit the loop may end before the iteration does.
LoopExit ==
    /\ pc = "running" /\ control_flow = "Exit"
    /\ pc' = "exited"
    /\ UNCHANGED <<arg, scene, particle_vars, initial_vars, loop_vars, draw_vars,
                   ticks, call_vars>>

\* ------------------------------------------------------- single calls

\* point_update on the arguments, then on its own result.
CallPointUpdate ==
    /\ pc = "call"
    /\ call_n < MaxCalls
    /\ call_in' = call_out
    /\ call_out' = point_update(call_out[1], call_out[2], call_out[3], call_out[4])
    /\ call_n' = call_n + 1
    /\ UNCHANGED <<pc, arg, scene, particle_vars, initial_vars, loop_vars,
                   draw_vars, ticks>>

\* The "Draw point" block of scene_1 on the position call_out.
CallDrawPoint ==
    /\ pc = "call"
    /\ \E writes \in {PointWrites(1, <<call_out[1]>>, <<call_out[2]>>)} :
           /\ frame' = ApplyWrites(frame, writes)
           /\ written' = {writes[i][1] : i \in 1 .. Len(writes)}
           /\ pc' = IF Panics(writes) THEN "panicked" ELSE "drawn"
    /\ UNCHANGED <<arg, scene, particle_vars, initial_vars, loop_vars, frames,
                   steps_drawn, ticks, call_vars>>

Next ==
    \/ Main
    \/ CloseRequested
    \/ WindowInvalidated
    \/ MainEventsCleared
    \/ RedrawRequested
    \/ LoopExit
    \/ CallPointUpdate
    \/ CallDrawPoint

Spec == Init /\ [][Next]_vars

\* ============================================================== claims

\* The arguments of the last single call, integrated: <<p_x, p_y, v_x, v_y>>.
CallIntegrated == Integrated(call_in[1], call_in[2], call_in[3], call_in[4])
\* The squared distance of that position from the arena center.
CallDistanceSquared == DistanceSquared(CallIntegrated[1], CallIntegrated[2])
\* The squared boundary limit, (arena.radius - 0)^2.
LimitSquared == AsF64(CIRCLE_RADIUS * CIRCLE_RADIUS)

\* A unit normal carries half a unit of rounding in each component; the clamp
\* scales it by the radius and rounds once more.
ContainmentTolerance == CIRCLE_RADIUS + 1

\* The position is within the arena, up to the tolerance.
Contained(p_x, p_y) ==
    LET dx == p_x - AsF64(CIRCLE_CENTER_X)
        dy == p_y - AsF64(CIRCLE_CENTER_Y)
        limit == AsF64(CIRCLE_RADIUS) + ContainmentTolerance
    IN  dx * dx + dy * dy <= limit * limit

\* C1: after every return of point_update, from any position and velocity, and
\* after every tick of every scene, each particle's distance to the arena
\* center is at most the arena's radius (the particle's radius is 0), within
\* the tolerance.
C1_BoundaryContainment ==
    /\ call_n > 0 => Contained(call_out[1], call_out[2])
    /\ ticks > 0 =>
         \A i \in 1 .. num_points :
            Contained(point_position_x[i], point_position_y[i])

\* A call from outside the arena whose integrated position is outside too.
C1_Witness ==
    /\ call_n > 0
    /\ ~Contained(call_in[1], call_in[2])
    /\ CallDistanceSquared > LimitSquared
    /\ Contained(call_out[1], call_out[2])

\* The outward unit normal at a position, the reflection of v about it and the
\* position at the limit along it, as the specification states them.
SpecOutwardNormal(p_x, p_y) ==
    LET d == FSqrt(DistanceSquared(p_x, p_y))
    IN  <<FDiv(p_x - AsF64(CIRCLE_CENTER_X), d), FDiv(p_y - AsF64(CIRCLE_CENTER_Y), d)>>

SpecReflected(v_x, v_y, n) ==
    LET dot == FMul(v_x, n[1]) + FMul(v_y, n[2])
    IN  <<v_x - FMul(FMul(AsF64(2), dot), n[1]), v_y - FMul(FMul(AsF64(2), dot), n[2])>>

SpecClamped(n) ==
    <<AsF64(CIRCLE_CENTER_X) + FMul(AsF64(CIRCLE_RADIUS), n[1]),
      AsF64(CIRCLE_CENTER_Y) + FMul(AsF64(CIRCLE_RADIUS), n[2])>>

\* The corrected result of the last single call, by the specification.
SpecCorrected ==
    LET n == SpecOutwardNormal(CallIntegrated[1], CallIntegrated[2])
        v == SpecReflected(CallIntegrated[3], CallIntegrated[4], n)
        p == SpecClamped(n)
    IN  <<p[1], p[2], v[1], v[2]>>

\* C2 as stated: the check is strict; at a squared distance equal to the
\* squared limit the step returns the integrated position and velocity.
C2_StrictCheck ==
    (call_n > 0 /\ CallDistanceSquared = LimitSquared) => call_out = CallIntegrated

\* C2, amended: the check is not strict.  The correction is applied when the
\* squared distance of the integrated position is greater than or equal to the
\* squared limit, and the integrated state is returned only when it is less.
C2_NonStrictCheck ==
    call_n > 0 =>
        /\ CallDistanceSquared >= LimitSquared => call_out = SpecCorrected
        /\ CallDistanceSquared < LimitSquared => call_out = CallIntegrated

\* A call whose integrated position is exactly at the limit, and whose velocity
\* was reflected.
C2_Witness ==
    /\ call_n > 0
    /\ CallDistanceSquared = LimitSquared
    /\ <<call_out[3], call_out[4]>> # <<CallIntegrated[3], CallIntegrated[4]>>

SpecOnScreen(p_x, p_y) ==
    /\ 0 <= RoundAsI32(p_x) /\ RoundAsI32(p_x) < SCREEN_WIDTH
    /\ 0 <= RoundAsI32(p_y) /\ RoundAsI32(p_y) < SCREEN_HEIGHT

\* C4: every drawing writes only at byte indices in [0, width*height*4), and
\* never fails; a point whose rounded position is off the screen is skipped
\* without a write.
C4_WritesInBounds ==
    /\ pc # "panicked"
    /\ \A index \in written :
          0 <= index /\ index + 4 <= SCREEN_WIDTH * SCREEN_HEIGHT * 4
    /\ (pc = "drawn" /\ ~SpecOnScreen(call_out[1], call_out[2])) =>
          written = {} /\ frame = EmptyFrame

\* A point off the screen was drawn: nothing was written.
C4_Witness ==
    /\ pc = "drawn"
    /\ ~SpecOnScreen(call_out[1], call_out[2])
    /\ written = {}

\* The semi-implicit Euler step of the specification on the last single call's
\* arguments: the velocity first, the position from the updated velocity.
SpecEuler ==
    LET v_x == call_in[3] + FMul(0, TIME_STEP)
        v_y == call_in[4] + FMul(G, TIME_STEP)
    IN  <<call_in[1] + FMul(v_x, TIME_STEP), call_in[2] + FMul(v_y, TIME_STEP), v_x, v_y>>

\* The scenario of the specification: at the arena center with velocity (10, 0).
C5_Scenario ==
    call_in = <<AsF64(CIRCLE_CENTER_X), AsF64(CIRCLE_CENTER_Y), 10 * Scale, 0>>

\* C5: a step whose integrated position stays inside the limit returns
\* velocity + acceleration * dt and position + (that velocity) * dt; from the
\* center with velocity (10, 0) it returns center + (1.0, 0.098) and
\* (10.0, 0.98).
C5_SemiImplicitEuler ==
    call_n > 0 =>
        /\ DistanceSquared(SpecEuler[1], SpecEuler[2]) < LimitSquared =>
              call_out = SpecEuler
        /\ C5_Scenario =>
              call_out = <<AsF64(CIRCLE_CENTER_X) + Scale,
                           AsF64(CIRCLE_CENTER_Y) + (98 * Scale) \div 1000,
                           10 * Scale, (98 * Scale) \div 100>>

\* The scenario's step has been taken.
C5_Witness == call_n = 1 /\ C5_Scenario /\ call_out[2] # call_in[2]

\* The cells of the screen at a squared distance from the center that is
\* related to the squared radius by `inside`.
SpecCells(inside(_, _)) ==
    {c \in (0 .. SCREEN_WIDTH - 1) \X (0 .. SCREEN_HEIGHT - 1) :
        inside((c[1] - CIRCLE_CENTER_X) * (c[1] - CIRCLE_CENTER_X)
                 + (c[2] - CIRCLE_CENTER_Y) * (c[2] - CIRCLE_CENTER_Y),
               CIRCLE_RADIUS * CIRCLE_RADIUS)}

\* The particles are at rest, one on each cell of `cells` and nowhere else.
OnePerCell(cells) ==
    /\ num_points = Cardinality(cells)
    /\ Len(point_position_x) = num_points /\ Len(point_position_y) = num_points
    /\ Len(point_velocity_x) = num_points /\ Len(point_velocity_y) = num_points
    /\ {<<point_position_x[i], point_position_y[i]>> : i \in 1 .. num_points}
         = {<<AsF64(c[1]), AsF64(c[2])>> : c \in cells}
    /\ \A i \in 1 .. num_points : point_velocity_x[i] = 0 /\ point_velocity_y[i] = 0

\* C6 as stated: the setup of scenes 4 and 5 creates one particle for each cell
\* strictly inside the arena circle, and none for a cell on the circle.
C6_StrictlyInside ==
    (scene \in {4, 5} /\ ticks = 0) => OnePerCell(SpecCells(LAMBDA d, r : d < r))

\* C6, amended: the setup creates exactly one particle, at rest, for each cell
\* whose squared distance from the center is less than or equal to the squared
\* radius (the cells on the arena circle included), and none for any other.
C6_InsideOrOnCircle ==
    (scene \in {4, 5} /\ ticks = 0) => OnePerCell(SpecCells(LAMBDA d, r : d <= r))

\* Scene 4 set up, with a particle on the arena circle.
C6_Witness ==
    /\ scene = 4 /\ ticks = 0 /\ pc = "running"
    /\ \E i \in 1 .. num_points :
          DistanceSquared(point_position_x[i], point_position_y[i]) = LimitSquared

SpeedSquared(v_x, v_y) == v_x * v_x + v_y * v_y

Abs(a) == IF a < 0 THEN -a ELSE a

\* The unit normal's rounding changes the squared speed by a fraction of it,
\* and the roundings of the products by a fraction of a unit.
SpeedTolerance(speed_squared) == speed_squared \div 100 + Scale * 10

\* C7: when the correction triggers, the returned velocity has the magnitude
\* of the velocity before the reflection, within the tolerance.
C7_ReflectionPreservesSpeed ==
    (call_n > 0 /\ CallDistanceSquared >= LimitSquared) =>
        Abs(SpeedSquared(call_out[3], call_out[4])
              - SpeedSquared(CallIntegrated[3], CallIntegrated[4]))
          <= SpeedTolerance(SpeedSquared(CallIntegrated[3], CallIntegrated[4]))

\* A reflection that turned a velocity of at least 10 around.
C7_Witness ==
    /\ call_n > 0
    /\ CallDistanceSquared >= LimitSquared
    /\ SpeedSquared(CallIntegrated[3], CallIntegrated[4]) >= 100 * Scale * Scale
    /\ call_out[3] * CallIntegrated[3] + call_out[4] * CallIntegrated[4] < 0

\* The frame is as the last redraw left it, and no tick has come since.
FrameIsCurrent == frames > 0 /\ steps_drawn = point_steps

\* C8: in scene 5 each particle's initial position stays the grid cell of its
\* creation, and a redraw writes the particle's sample at that cell's pixel,
\* (init_y * width + init_x) * 4, colored from the particle's current
\* position; no other pixel holds a sample.
C8_SampleAtInitialPosition ==
    scene = 5 =>
        /\ Len(point_initial_position_x) = num_points
        /\ Len(point_initial_position_y) = num_points
        /\ \A i \in 1 .. num_points :
              /\ point_initial_position_x[i] = GridCells[i][1]
              /\ point_initial_position_y[i] = GridCells[i][2]
        /\ FrameIsCurrent =>
              /\ \A i \in 1 .. num_points :
                    LET index == (point_initial_position_y[i] * SCREEN_WIDTH
                                    + point_initial_position_x[i]) * 4
                    IN  /\ index \in written
                        /\ frame[index \div 4]
                             = <<0, ColorChannel(point_position_x[i], CIRCLE_CENTER_X),
                                 ColorChannel(point_position_y[i], CIRCLE_CENTER_Y), 255>>
              /\ \A p \in DOMAIN frame :
                    (\A i \in 1 .. num_points :
                        p # point_initial_position_y[i] * SCREEN_WIDTH
                              + point_initial_position_x[i])
                      => frame[p] = CLEAR_COLOR

\* A frame of scene 5 drawn when a particle had left its initial cell.
C8_Witness ==
    /\ scene = 5 /\ FrameIsCurrent
    /\ \E i \in 1 .. num_points :
          <<RoundAsI32(point_position_x[i]), RoundAsI32(point_position_y[i])>>
            # <<point_initial_position_x[i], point_initial_position_y[i]>>

\* The argument is the decimal numeral of n (0 <= n <= 9): the digit, after any
\* zeros and at most one leading '+'.
IsNumeral(a, n) ==
    /\ a # NoArg /\ Len(a) >= 1
    /\ DigitValue(a[Len(a)]) = n
    /\ \A i \in 1 .. Len(a) - 1 : a[i] = "0" \/ (i = 1 /\ a[i] = "+")

\* The scene the specification runs for an argument.
SpecScene(a) == IF \E n \in 1 .. 5 : IsNumeral(a, n)
                THEN CHOOSE n \in 1 .. 5 : IsNumeral(a, n)
                ELSE 1

C10_OutwardNormalReflection ==
    (call_n > 0 /\ CallDistanceSquared >= LimitSquared) => call_out = SpecCorrected

\* A correction at a position off both axes, of a velocity with a component
\* along the normal.
C10_Witness ==
    /\ call_n > 0
    /\ CallDistanceSquared >= LimitSquared
    /\ CallIntegrated[1] # AsF64(CIRCLE_CENTER_X)
    /\ CallIntegrated[2] # AsF64(CIRCLE_CENTER_Y)
    /\ <<call_out[3], call_out[4]>> # <<CallIntegrated[3], CallIntegrated[4]>>

====
